---- MODULE Spec2Model ----
(***************************************************************************)
(* Resume controller (backend/controllers/resume.controller.js) and the    *)
(* analysis-service client (lib/pythonAPI.js) as a state machine.          *)
(*                                                                         *)
(* The state is the `resumes` table, the `resumes` storage bucket, the     *)
(* wall clock, and a pool of in-flight HTTP requests.  Every `await` of a  *)
(* handler is one step, so the steps of concurrent requests interleave.    *)
(* The collaborators that are called but not defined in the two source     *)
(* files (the storage helpers, the supabase query builder, axios) are      *)
(* nondeterministic in their outcome: they succeed or they fail.           *)
(***************************************************************************)
EXTENDS Integers, Sequences, FiniteSets, TLC

VARIABLES
    db,        \* rows of the `resumes` table
    storage,   \* paths of the objects present in the storage bucket
    now,       \* Date.now()
    nextId,    \* next id the table generates
    uploads,   \* number of upload requests received so far
    req,       \* the in-flight requests, one record per slot
    writers    \* the candidates an upload key was generated for at instant `now`

vars == <<db, storage, now, nextId, uploads, req, writers>>

----------------------------------------------------------------------------
(* Bounds *)

MaxUploads == 1    \* upload requests accepted in one run of the workflow
MaxSkills == 16    \* longest skills list the analysis service returns
MaxYears == 11     \* largest experience_years the analysis service returns

Slots == {1, 2}                \* two requests are in flight at a time
Instants == {0, 1}             \* the values Date.now() takes
ResumeIds == 1..MaxUploads     \* the ids a client names in /resumes/:id
CandidateIds == {"c1", "c2"}
Users == CandidateIds \cup {"r1"}

\* The `profiles` table: c1 and c2 are candidates, r1 is a recruiter.
UserType(u) == IF u \in CandidateIds THEN "candidate" ELSE "recruiter"

Min(a, b) == IF a <= b THEN a ELSE b

----------------------------------------------------------------------------
(* JavaScript values.  A value is a record tagged with its type; a field    *)
(* of an object is present exactly when it is in the record's domain.       *)

Null == [type |-> "null"]
Undefined == [type |-> "undefined"]
StringBody == [type |-> "string"]     \* a response body that is no JSON object

Has(v, f) == f \in DOMAIN v

\* resumeFile as sent in the body: absent, the empty string, or base64 text.
NoFile == "<undefined>"
EmptyFile == ""
Files == {NoFile, EmptyFile, "JVBERi0x"}

\* fileName as sent in the body: absent, or a string (its characters).
NoName == <<"<undefined>">>
EmptyName == <<>>
FileNames == {NoName, EmptyName, <<"cv.pdf">>}

\* Mutant of Truthy: `resumeFile === undefined` in place of `!resumeFile`.
TruthyNotUndefined(s) == s # NoFile

\* `!resumeFile` is false exactly for a non-empty string.
Truthy(s) == s # NoFile /\ s # ""

SkillList(n) == [i \in 1..n |-> "skill"]

DbErrorMsg == "duplicate key value violates unique constraint"
NoRowMsg == "JSON object requested, multiple (or no) rows returned"
UploadErrorMsg == "Failed to upload file to storage"
DeleteErrorMsg == "Failed to delete file from storage"

----------------------------------------------------------------------------
(* lib/pythonAPI.js *)

\* The outcomes of axios.post: it rejects (timeout, network error, non-2xx
\* status) or resolves with the response, whose data is the parsed body.
HttpFailures == {"timeout", "network", "status"}
HttpOk(body) == [kind |-> "ok", data |-> body]
HttpFail(k) == [kind |-> k, data |-> Undefined]

\* Mutant of analyzeResumeWithAI: the catch block returns {} in place of null.
analyzeResumeWithAIEmptyObject(resumeText, fileName, http) ==
    IF fileName = NoName THEN [type |-> "object"]
    ELSE IF http.kind = "ok" THEN http.data
    ELSE [type |-> "object"]

\* What a call evaluates to when it raises in place of returning.
Raised == [type |-> "raised"]

\* Mutant of analyzeResumeWithAI: the request body is built before the try
\* block, so a missing fileName raises out of the function.
analyzeResumeWithAIUnguarded(resumeText, fileName, http) ==
    IF fileName = NoName THEN Raised
    ELSE IF http.kind = "ok" THEN http.data
    ELSE Null

\* analyzeResumeWithAI: the request body is built inside the try block, so a
\* missing fileName (TypeError on fileName.endsWith) is caught like a failure
\* of the call; every caught error returns null, a response returns its data.
analyzeResumeWithAI(resumeText, fileName, http) ==
    IF fileName = NoName THEN Null
    ELSE IF http.kind = "ok" THEN http.data
    ELSE Null

----------------------------------------------------------------------------
(* Helpers of resume.controller.js *)

extractTextFromBase64(base64Content, fileName) == "Placeholder resume text"

\* Mutant of calculateOverallScore: the bonuses and the total are not capped.
calculateOverallScoreUncapped(analysis) ==
    50 + (IF Has(analysis, "skills") THEN Len(analysis.skills) * 2 ELSE 0)
       + (IF Has(analysis, "experience_years") THEN analysis.experience_years * 2 ELSE 0)

\* Mutant of calculateOverallScore: a skill counts 3 points in place of 2.
calculateOverallScoreTriple(analysis) ==
    Min(100, 50 + (IF Has(analysis, "skills") THEN Min(Len(analysis.skills) * 3, 30) ELSE 0)
                + (IF Has(analysis, "experience_years")
                   THEN Min(analysis.experience_years * 2, 20) ELSE 0))

calculateOverallScore(analysis) ==
    LET s0 == 50
        s1 == IF Has(analysis, "skills") /\ Len(analysis.skills) # 0
              THEN s0 + Min(Len(analysis.skills) * 2, 30)
              ELSE s0
        s2 == IF Has(analysis, "experience_years") /\ analysis.experience_years # 0
              THEN s1 + Min(analysis.experience_years * 2, 20)
              ELSE s1
    IN  Min(s2, 100)

\* `analysis.f || []` and `analysis.f || {}`: an array or object is truthy.
OrEmpty(analysis, f) == IF Has(analysis, f) THEN analysis[f] ELSE <<>>

\* `analysis.f || 0`: 0 is falsy.
OrZero(analysis, f) == IF Has(analysis, f) /\ analysis[f] # 0 THEN analysis[f] ELSE 0

\* `analysis.f || ''`: '' is falsy.
OrBlank(analysis, f) == IF Has(analysis, f) /\ analysis[f] # "" THEN analysis[f] ELSE ""

\* Mutant of BuildAnalysisData: the fields are copied without `|| default`,
\* so a field the service left out is left out of analysis_data.
BuildAnalysisDataNoDefaults(aiAnalysis, t) ==
    IF aiAnalysis.type \in {"null", "undefined"} THEN Null
    ELSE LET copied == DOMAIN aiAnalysis \cap
                         {"skills", "categorized_skills", "experience_years",
                          "education", "certifications", "summary"}
         IN  [f \in copied \cup {"type", "score", "analyzed_at"} |->
                CASE f = "type" -> "object"
                  [] f = "score" -> calculateOverallScore(aiAnalysis)
                  [] f = "analyzed_at" -> t
                  [] OTHER -> aiAnalysis[f]]

\* The object literal of lines 35-44.  Reading a field of null throws, which
\* the enclosing try/catch turns into analysisData = null.
BuildAnalysisData(aiAnalysis, t) ==
    IF aiAnalysis.type \in {"null", "undefined"} THEN Null
    ELSE [type |-> "object",
          skills |-> OrEmpty(aiAnalysis, "skills"),
          categorized_skills |-> OrEmpty(aiAnalysis, "categorized_skills"),
          experience_years |-> OrZero(aiAnalysis, "experience_years"),
          education |-> OrEmpty(aiAnalysis, "education"),
          certifications |-> OrEmpty(aiAnalysis, "certifications"),
          summary |-> OrBlank(aiAnalysis, "summary"),
          score |-> calculateOverallScore(aiAnalysis),
          analyzed_at |-> t]

----------------------------------------------------------------------------
(* Collaborators: storage helpers (lib/supabaseStorage.js) and the table *)

\* uploadToSupabase and deleteFromSupabase resolve, or throw when the storage
\* service fails; deleting a key that is already absent resolves.
StorageOutcomes == {"ok", "throw"}

\* A query on the table resolves with {data} or with {error}; it does not throw.
DbOutcomes == {"ok", "error"}

\* Mutant of StorageKey: the key leaves out Date.now().
StorageKeyNoInstant(candidateId, t) == <<"resume", candidateId>>

\* Mutant of StorageKey: the key leaves out the candidate.
StorageKeyNoCandidate(candidateId, t) == <<"resume", t>>

\* The storage key of an upload: `resume_${candidateId}_${Date.now()}`.
StorageKey(candidateId, t) == <<"resume", candidateId, t>>

\* What uploadToSupabase resolves with for a stored object.
UploadResult(resumeFile, key) ==
    [publicUrl |-> <<"https://storage/resumes", key>>,
     path |-> key,
     fileName |-> key,
     fileSize |-> 6]

\* The row the table returns for an insert (.insert(...).select().single()).
\* The handler does not send updated_at: the table stamps the row when it
\* writes it, and the stamps of successive inserts increase, so the stamp is
\* the sequence number of the insert.
NewRow(id, candidateId, uploadResult, fileName, analysisData) ==
    [id |-> id,
     candidate_id |-> candidateId,
     resume_url |-> uploadResult.publicUrl,
     storage_path |-> uploadResult.path,
     file_name |-> IF fileName # NoName /\ fileName # EmptyName
                   THEN fileName ELSE uploadResult.fileName,
     file_size |-> uploadResult.fileSize,
     analysis_data |-> analysisData,
     updated_at |-> id]

\* .eq('id', resumeId).eq('candidate_id', candidateId)
OwnedRows(rows, resumeId, candidateId) ==
    {row \in rows : row.id = resumeId /\ row.candidate_id = candidateId}

\* .eq('id', resumeId)
RowsById(rows, resumeId) == {row \in rows : row.id = resumeId}

----------------------------------------------------------------------------
(* Requests *)

NoResponse == [status |-> 0, message |-> "", error |-> "", data |-> Undefined]

\* res.status(code).json({message, error}) and res.status(code).json(data)
Reply(code, message, error) ==
    [status |-> code, message |-> message, error |-> error, data |-> Undefined]
ReplyData(code, data) ==
    [status |-> code, message |-> "", error |-> "", data |-> data]

\* A JSON array as a response body.
Array(items) == [type |-> "array", items |-> items]

\* A request slot: the handler's inputs, its position (pc), its locals, the
\* calls it has made with their outcomes, the response it sent, and the number
\* of responses it has sent.
IdleReq ==
    [kind |-> "none", pc |-> "idle", caller |-> "c1",
     resumeFile |-> NoFile, fileName |-> NoName, resumeId |-> 0,
     uploadResult |-> Undefined, analysisData |-> Null,
     dbError |-> "", found |-> Undefined,
     calls |-> <<>>, res |-> NoResponse, sent |-> 0]

Called(q, op) == \E i \in 1..Len(q.calls) : q.calls[i][1] = op
CalledWith(q, op, outcome) == \E i \in 1..Len(q.calls) : q.calls[i] = <<op, outcome>>

Free(r) == req[r].pc \in {"idle", "done"}

\* The handler of slot r goes on to its next await.
Continue(r, q) == req' = [req EXCEPT ![r] = q]

\* The handler of slot r sends its response and returns.  The slot keeps who
\* asked for what, what the handler called and what it answered; only the
\* latest finished request is kept.
Respond(r, q, response) ==
    req' = [s \in Slots |->
              IF s = r
              THEN [IdleReq EXCEPT !.kind = q.kind, !.pc = "done", !.caller = q.caller,
                                   !.resumeId = q.resumeId, !.uploadResult = q.uploadResult,
                                   !.found = q.found, !.calls = q.calls, !.res = response,
                                   !.sent = q.sent + 1]
              ELSE IF req[s].pc = "done" THEN IdleReq
              ELSE req[s]]

Init ==
    /\ db = {}
    /\ storage = {}
    /\ now = 0
    /\ nextId = 1
    /\ uploads = 0
    /\ writers = {}
    /\ req = [r \in Slots |-> IdleReq]

\* The clock advances between any two steps.
Tick ==
    /\ now + 1 \in Instants
    /\ now' = now + 1
    /\ writers' = {}
    /\ UNCHANGED <<db, storage, nextId, uploads, req>>

----------------------------------------------------------------------------
(* uploadResume *)

\* POST /resumes arrives: candidateId = req.user.id, {resumeFile, fileName} =
\* req.body; if (!resumeFile) return res.status(400)...
UploadArrive(r, c, f, n) ==
    LET q == [IdleReq EXCEPT !.kind = "upload", !.caller = c,
                             !.resumeFile = f, !.fileName = n] IN
    /\ IF ~Truthy(f)
       THEN Respond(r, q, Reply(400, "Resume file is required", ""))
       ELSE Continue(r, [q EXCEPT !.pc = "store"])
    /\ uploads' = uploads + 1
    /\ UNCHANGED <<db, storage, now, nextId, writers>>

UploadRequest(r, names) ==
    /\ Free(r)
    /\ uploads < MaxUploads
    /\ \E c \in CandidateIds, f \in Files, n \in names : UploadArrive(r, c, f, n)

\* Mutant of UploadStore: a failed storage write is swallowed and the handler
\* goes on as if the object were stored.
UploadStoreSwallow(r) ==
    /\ req[r].kind = "upload" /\ req[r].pc = "store"
    /\ \E outcome \in StorageOutcomes :
         LET key == StorageKey(req[r].caller, now) IN
         /\ storage' = IF outcome = "ok" THEN storage \cup {key} ELSE storage
         /\ Continue(r, [req[r] EXCEPT
                           !.pc = "enrich",
                           !.uploadResult = UploadResult(req[r].resumeFile, key),
                           !.calls = Append(@, <<"storage.upload", outcome>>)])
    /\ writers' = writers \cup {req[r].caller}
    /\ UNCHANGED <<db, now, nextId, uploads>>

\* await uploadToSupabase(resumeFile, 'resumes', key): the object is stored, or
\* the helper throws and the outer catch answers 500.
UploadStore(r) ==
    /\ req[r].kind = "upload" /\ req[r].pc = "store"
    /\ \E outcome \in StorageOutcomes :
         LET key == StorageKey(req[r].caller, now)
             q == [req[r] EXCEPT !.calls = Append(@, <<"storage.upload", outcome>>)]
         IN  IF outcome = "ok"
             THEN /\ storage' = storage \cup {key}
                  /\ Continue(r, [q EXCEPT !.pc = "enrich",
                                           !.uploadResult =
                                               UploadResult(req[r].resumeFile, key)])
             ELSE /\ storage' = storage
                  /\ Respond(r, q, Reply(500, "Server error", UploadErrorMsg))
    /\ writers' = writers \cup {req[r].caller}
    /\ UNCHANGED <<db, now, nextId, uploads>>

\* What the HTTP call of analyzeResumeWithAI came to, for the call log.
HttpOutcome(fileName, http) ==
    IF fileName = NoName THEN "not sent"
    ELSE IF http.kind = "ok" THEN http.data.type
    ELSE "rejected"

\* Lines 25-48 with the given outcome of the HTTP call.
Enrich(q, http, t) ==
    LET resumeText == extractTextFromBase64(q.resumeFile, q.fileName)
        aiAnalysis == analyzeResumeWithAI(resumeText, q.fileName, http)
    IN  [q EXCEPT !.pc = "insert",
                  !.analysisData = BuildAnalysisData(aiAnalysis, t),
                  !.calls = Append(@, <<"analysis", HttpOutcome(q.fileName, http)>>)]

\* The response bodies the analysis service is observed with in the workflow.
FullAnalysis ==
    [type |-> "object", skills |-> SkillList(5), categorized_skills |-> <<"languages">>,
     experience_years |-> 3, education |-> <<"BSc">>, certifications |-> <<"AWS">>,
     summary |-> "Backend engineer"]
Bodies == {Null, StringBody, FullAnalysis}
HttpOutcomes == {HttpFail(k) : k \in HttpFailures} \cup {HttpOk(b) : b \in Bodies}
WorkflowNames == {<<"cv.pdf">>}

UploadEnrich(r, outcomes) ==
    /\ req[r].kind = "upload" /\ req[r].pc = "enrich"
    /\ \E http \in outcomes : Continue(r, Enrich(req[r], http, now))
    /\ UNCHANGED <<db, storage, now, nextId, uploads, writers>>

\* Mutant of UploadInsert: a step after the successful insert throws, and the
\* outer catch answers 500.
UploadInsertLateFailure(r) ==
    /\ req[r].kind = "upload" /\ req[r].pc = "insert"
    /\ \E outcome \in DbOutcomes :
         LET row == NewRow(nextId, req[r].caller, req[r].uploadResult,
                           req[r].fileName, req[r].analysisData)
             q == [req[r] EXCEPT !.calls = Append(@, <<"db.insert", outcome>>)]
         IN  IF outcome = "ok"
             THEN /\ db' = db \cup {row}
                  /\ nextId' = nextId + 1
                  /\ Respond(r, q, Reply(500, "Server error", ""))
             ELSE /\ UNCHANGED <<db, nextId>>
                  /\ Continue(r, [q EXCEPT !.pc = "compensate", !.dbError = DbErrorMsg])
    /\ UNCHANGED <<storage, now, uploads, writers>>

\* supabase.from('resumes').insert({...}).select().single(): the row is
\* inserted and returned (201), or the table reports an error.
UploadInsert(r) ==
    /\ req[r].kind = "upload" /\ req[r].pc = "insert"
    /\ \E outcome \in DbOutcomes :
         LET row == NewRow(nextId, req[r].caller, req[r].uploadResult,
                           req[r].fileName, req[r].analysisData)
             q == [req[r] EXCEPT !.calls = Append(@, <<"db.insert", outcome>>)]
         IN  IF outcome = "ok"
             THEN /\ db' = db \cup {row}
                  /\ nextId' = nextId + 1
                  /\ Respond(r, q, ReplyData(201, row))
             ELSE /\ UNCHANGED <<db, nextId>>
                  /\ Continue(r, [q EXCEPT !.pc = "compensate", !.dbError = DbErrorMsg])
    /\ UNCHANGED <<storage, now, uploads, writers>>

\* if (error) { await deleteFromSupabase(uploadResult.path); return 400 }
\* The object is removed, or the helper throws and the outer catch answers 500.
UploadCompensate(r) ==
    /\ req[r].kind = "upload" /\ req[r].pc = "compensate"
    /\ \E outcome \in StorageOutcomes :
         LET q == [req[r] EXCEPT !.calls = Append(@, <<"storage.delete", outcome>>)] IN
         IF outcome = "ok"
         THEN /\ storage' = storage \ {req[r].uploadResult.path}
              /\ Respond(r, q, Reply(400, req[r].dbError, ""))
         ELSE /\ storage' = storage
              /\ Respond(r, q, Reply(500, "Server error", DeleteErrorMsg))
    /\ UNCHANGED <<db, now, nextId, uploads, writers>>

----------------------------------------------------------------------------
(* deleteResume *)

\* Mutant of DeleteScope: the lookup is scoped by id alone.
DeleteScopeById(rows, resumeId, candidateId) == RowsById(rows, resumeId)

\* The rows select('storage_path').eq('id').eq('candidate_id').single() finds.
DeleteScope(rows, resumeId, candidateId) == OwnedRows(rows, resumeId, candidateId)

\* DELETE /resumes/:id arrives, and the scoped select gives the row, or an
\* error (no row matched, or the query failed); `error || !resume` answers 404.
DeleteArrive(r, c, id) ==
    LET q == [IdleReq EXCEPT !.kind = "delete", !.caller = c, !.resumeId = id] IN
    /\ \/ \E row \in DeleteScope(db, id, c) :
            Continue(r, [q EXCEPT !.pc = "deleteRow",
                                  !.found = [storage_path |-> row.storage_path],
                                  !.calls = <<<<"db.select", "ok">>>>])
       \/ Respond(r, [q EXCEPT !.calls = <<<<"db.select", "error">>>>],
                  Reply(404, "Resume not found", ""))
    /\ UNCHANGED <<db, storage, now, nextId, uploads, writers>>

DeleteLookup(r) ==
    /\ Free(r)
    /\ \E c \in CandidateIds, id \in ResumeIds : DeleteArrive(r, c, id)

\* await supabase.from('resumes').delete().eq('id').eq('candidate_id'): the
\* result is not inspected, so an error leaves the row and the handler goes on.
DeleteRow(r) ==
    /\ req[r].kind = "delete" /\ req[r].pc = "deleteRow"
    /\ \E outcome \in DbOutcomes :
         /\ db' = IF outcome = "ok"
                  THEN db \ OwnedRows(db, req[r].resumeId, req[r].caller)
                  ELSE db
         /\ Continue(r, [req[r] EXCEPT !.pc = "deleteObject",
                                       !.calls = Append(@, <<"db.delete", outcome>>)])
    /\ UNCHANGED <<storage, now, nextId, uploads, writers>>

\* Mutant of DeleteObject: the catch block logs the error and sends nothing.
DeleteObjectSilent(r) ==
    /\ req[r].kind = "delete" /\ req[r].pc = "deleteObject"
    /\ \E outcome \in StorageOutcomes :
         LET q == [req[r] EXCEPT !.calls = Append(@, <<"storage.delete", outcome>>)] IN
         IF outcome = "ok"
         THEN /\ storage' = storage \ {req[r].found.storage_path}
              /\ Respond(r, q, Reply(200, "Resume deleted successfully", ""))
         ELSE /\ storage' = storage
              /\ Continue(r, [q EXCEPT !.pc = "done"])
    /\ UNCHANGED <<db, now, nextId, uploads, writers>>

\* if (resume.storage_path) await deleteFromSupabase(resume.storage_path);
\* res.status(200)...; a throw of the helper reaches the outer catch (500).
DeleteObject(r) ==
    /\ req[r].kind = "delete" /\ req[r].pc = "deleteObject"
    /\ \E outcome \in StorageOutcomes :
         LET q == [req[r] EXCEPT !.calls = Append(@, <<"storage.delete", outcome>>)] IN
         IF outcome = "ok"
         THEN /\ storage' = storage \ {req[r].found.storage_path}
              /\ Respond(r, q, Reply(200, "Resume deleted successfully", ""))
         ELSE /\ storage' = storage
              /\ Respond(r, q, Reply(500, "Server error", ""))
    /\ UNCHANGED <<db, now, nextId, uploads, writers>>

----------------------------------------------------------------------------
(* getResume *)

\* Mutant of Forbidden: the user type is not looked at.
ForbiddenNonOwner(profile, data, userId) == data.candidate_id # userId

\* profile?.user_type === 'candidate' && data.candidate_id !== userId
Forbidden(profile, data, userId) ==
    /\ profile.type = "object"
    /\ profile.user_type = "candidate"
    /\ data.candidate_id # userId

\* What .from('profiles').select('user_type').eq('id', userId).single() can
\* give: the caller's profile, or null data when the query fails.
ProfileResults(userId) == {[type |-> "object", user_type |-> UserType(userId)], Null}

\* The handler after the first query returned `data`: the profile lookup and
\* the authorization check.
Authorize(data, profile, userId) ==
    IF Forbidden(profile, data, userId)
    THEN Reply(403, "Unauthorized", "")
    ELSE ReplyData(200, data)

\* GET /resumes/:id.  The handler writes nothing and reads the table once
\* (select('*').eq('id', resumeId).single()), so its steps are one action:
\* `error || !data` answers 404 before the profile is read.
GetResume(r) ==
    /\ Free(r)
    /\ \E u \in Users, id \in ResumeIds :
         LET q == [IdleReq EXCEPT !.kind = "get", !.caller = u, !.resumeId = id] IN
         \/ \E row \in RowsById(db, id), profile \in ProfileResults(u) :
              Respond(r, [q EXCEPT !.found = row,
                                   !.calls = <<<<"db.select", "ok">>,
                                               <<"db.profile", profile.type>>>>],
                      Authorize(row, profile, u))
         \/ Respond(r, [q EXCEPT !.calls = <<<<"db.select", "error">>>>],
                    Reply(404, "Resume not found", ""))
    /\ UNCHANGED <<db, storage, now, nextId, uploads, writers>>

----------------------------------------------------------------------------
(* getMyResumes *)

RECURSIVE OrderByUpdatedAtAscending(_)
\* Mutant of OrderByUpdatedAt: { ascending: true }.
OrderByUpdatedAtAscending(rows) ==
    IF rows = {} THEN <<>>
    ELSE LET first == CHOOSE x \in rows : \A y \in rows : x.updated_at <= y.updated_at
         IN  <<first>> \o OrderByUpdatedAtAscending(rows \ {first})

RECURSIVE OrderByUpdatedAt(_)
\* .order('updated_at', { ascending: false })
OrderByUpdatedAt(rows) ==
    IF rows = {} THEN <<>>
    ELSE LET first == CHOOSE x \in rows : \A y \in rows : y.updated_at <= x.updated_at
         IN  <<first>> \o OrderByUpdatedAt(rows \ {first})

\* .eq('candidate_id', candidateId)
RowsOf(rows, candidateId) == {row \in rows : row.candidate_id = candidateId}

\* GET /resumes.  One query, then the response: the caller's rows in order
\* (200), or the table's error message (400).
GetMyResumes(r) ==
    /\ Free(r)
    /\ \E c \in CandidateIds, outcome \in DbOutcomes :
         LET q == [IdleReq EXCEPT !.kind = "list", !.caller = c,
                                  !.calls = <<<<"db.select", outcome>>>>] IN
         IF outcome = "ok"
         THEN Respond(r, q, ReplyData(200, Array(OrderByUpdatedAt(RowsOf(db, c)))))
         ELSE Respond(r, q, Reply(400, DbErrorMsg, ""))
    /\ UNCHANGED <<db, storage, now, nextId, uploads, writers>>

----------------------------------------------------------------------------
(* updateResumeAnalysis *)

\* analysisData as sent in the body of PUT /resumes/:id/analysis.
ManualAnalysis == [type |-> "object", skills |-> <<"sql">>, score |-> 70]
AnalysisInputs == {Null, ManualAnalysis}

\* Mutant of UpdateScope: the update is scoped by id alone.
UpdateScopeById(rows, resumeId, candidateId) == RowsById(rows, resumeId)

\* The rows .update(...).eq('id', resumeId).eq('candidate_id', candidateId) writes.
UpdateScope(rows, resumeId, candidateId) == OwnedRows(rows, resumeId, candidateId)

\* .update({ analysis_data: analysisData }): the one column of the payload.
UpdatedRow(row, analysisData) == [row EXCEPT !.analysis_data = analysisData]

\* PUT /resumes/:id/analysis by caller c.  One query, then the response: the
\* query fails, or matches no row (.single() reports it as an error), or
\* writes the matched row and returns it.
UpdateArrive(r, c, id, analysisData) ==
    LET q == [IdleReq EXCEPT !.kind = "update", !.caller = c, !.resumeId = id]
        hit == UpdateScope(db, id, c)
    IN  \/ /\ db' = db
           /\ Respond(r, [q EXCEPT !.calls = <<<<"db.update", "error">>>>],
                      Reply(400, DbErrorMsg, ""))
        \/ /\ hit = {}
           /\ db' = db
           /\ Respond(r, [q EXCEPT !.calls = <<<<"db.update", "no row">>>>],
                      Reply(400, NoRowMsg, ""))
        \/ \E row \in hit :
             /\ db' = (db \ {row}) \cup {UpdatedRow(row, analysisData)}
             /\ Respond(r, [q EXCEPT !.calls = <<<<"db.update", "ok">>>>],
                        ReplyData(200, UpdatedRow(row, analysisData)))

UpdateAnalysis(r, ids) ==
    /\ Free(r)
    /\ \E c \in CandidateIds, id \in ids, a \in AnalysisInputs : UpdateArrive(r, c, id, a)
    /\ UNCHANGED <<storage, now, nextId, uploads, writers>>

----------------------------------------------------------------------------

Next ==
    \/ Tick
    \/ \E r \in Slots : UploadRequest(r, WorkflowNames)
    \/ \E r \in Slots : UploadStore(r)
    \/ \E r \in Slots : UploadEnrich(r, HttpOutcomes)
    \/ \E r \in Slots : UploadInsert(r)
    \/ \E r \in Slots : UploadCompensate(r)
    \/ \E r \in Slots : DeleteLookup(r)
    \/ \E r \in Slots : DeleteRow(r)
    \/ \E r \in Slots : DeleteObject(r)
    \/ \E r \in Slots : GetResume(r)

Spec == Init /\ [][Next]_vars

----------------------------------------------------------------------------
(* The data path of one upload: every file name and every response of the  *)
(* analysis service, through lines 17-73.                                   *)

\* A response object: each field is present or absent.
AnalysisObject(skills, years, rest) ==
    [type |-> "object"]
      @@ (IF skills = -1 THEN <<>> ELSE [skills |-> SkillList(skills)])
      @@ (IF years = -1 THEN <<>> ELSE [experience_years |-> years])
      @@ (IF rest THEN [categorized_skills |-> <<"languages">>, education |-> <<"BSc">>,
                        certifications |-> <<"AWS">>, summary |-> "Backend engineer"]
          ELSE <<>>)

AnalysisObjects ==
    {AnalysisObject(n, y, rest) : n \in -1..MaxSkills, y \in -1..MaxYears, rest \in BOOLEAN}

DataOutcomes ==
    {HttpFail(k) : k \in HttpFailures}
      \cup {HttpOk(b) : b \in {Null, StringBody} \cup AnalysisObjects}

\* An upload request with a file has arrived.
DataInit ==
    /\ db = {}
    /\ storage = {}
    /\ now = 0
    /\ nextId = 1
    /\ uploads = 1
    /\ writers = {}
    /\ \E c \in CandidateIds, n \in FileNames :
         req = [r \in Slots |->
                  IF r = 1
                  THEN [IdleReq EXCEPT !.kind = "upload", !.pc = "store", !.caller = c,
                                       !.resumeFile = "JVBERi0x", !.fileName = n]
                  ELSE IdleReq]

DataNext ==
    \/ Tick
    \/ UploadStore(1)
    \/ UploadEnrich(1, DataOutcomes)
    \/ UploadInsert(1)
    \/ UploadCompensate(1)

DataSpec == DataInit /\ [][DataNext]_vars

----------------------------------------------------------------------------
(* Two uploads: as many upload requests as there are request slots, so that *)
(* two uploads interleave step by step and the table comes to hold two rows. *)

PairIds == 1..Cardinality(Slots)
PairOutcomes == {HttpFail("timeout"), HttpOk(FullAnalysis)}

PairUploadRequest(r, files) ==
    /\ Free(r)
    /\ uploads < Cardinality(Slots)
    /\ \E c \in CandidateIds, f \in files, n \in WorkflowNames : UploadArrive(r, c, f, n)

PairDeleteLookup(r) ==
    /\ Free(r)
    /\ \E c \in CandidateIds, id \in PairIds : DeleteArrive(r, c, id)

\* Uploads and deletes, interleaved.
PairNext ==
    \/ Tick
    \/ \E r \in Slots : PairUploadRequest(r, {"JVBERi0x"})
    \/ \E r \in Slots : UploadStore(r)
    \/ \E r \in Slots : UploadEnrich(r, PairOutcomes)
    \/ \E r \in Slots : UploadInsert(r)
    \/ \E r \in Slots : UploadCompensate(r)
    \/ \E r \in Slots : PairDeleteLookup(r)
    \/ \E r \in Slots : DeleteRow(r)
    \/ \E r \in Slots : DeleteObject(r)

PairSpec == Init /\ [][PairNext]_vars

\* Single writer per instant: an upload generates its storage key at an
\* instant at which no upload of the same candidate has generated one.
SoloStore(r) ==
    /\ req[r].caller \notin writers
    /\ UploadStore(r)

SoloNext ==
    \/ Tick
    \/ \E r \in Slots : PairUploadRequest(r, {"JVBERi0x"})
    \/ \E r \in Slots : SoloStore(r)
    \/ \E r \in Slots : UploadEnrich(r, PairOutcomes)
    \/ \E r \in Slots : UploadInsert(r)
    \/ \E r \in Slots : UploadCompensate(r)
    \/ \E r \in Slots : PairDeleteLookup(r)
    \/ \E r \in Slots : DeleteRow(r)
    \/ \E r \in Slots : DeleteObject(r)

SoloSpec == Init /\ [][SoloNext]_vars

\* Uploads, lists and updates, interleaved.
ListNext ==
    \/ Tick
    \/ \E r \in Slots : PairUploadRequest(r, {"JVBERi0x"})
    \/ \E r \in Slots : UploadStore(r)
    \/ \E r \in Slots : UploadEnrich(r, PairOutcomes)
    \/ \E r \in Slots : UploadInsert(r)
    \/ \E r \in Slots : UploadCompensate(r)
    \/ \E r \in Slots : GetMyResumes(r)
    \/ \E r \in Slots : UpdateAnalysis(r, PairIds)

ListSpec == Init /\ [][ListNext]_vars

----------------------------------------------------------------------------
(* Two uploads by different candidates, both arrived, interleaved step by  *)
(* step in any order.                                                       *)

DuoInit ==
    /\ db = {}
    /\ storage = {}
    /\ now = 0
    /\ nextId = 1
    /\ uploads = Cardinality(Slots)
    /\ writers = {}
    /\ \E caller \in [Slots -> CandidateIds] :
         /\ \A r, o \in Slots : r # o => caller[r] # caller[o]
         /\ req = [r \in Slots |->
                     [IdleReq EXCEPT !.kind = "upload", !.pc = "store",
                                     !.caller = caller[r],
                                     !.resumeFile = "JVBERi0x", !.fileName = <<"cv.pdf">>]]

DuoNext ==
    \/ Tick
    \/ \E r \in Slots : UploadStore(r)
    \/ \E r \in Slots : UploadEnrich(r, PairOutcomes)
    \/ \E r \in Slots : UploadInsert(r)
    \/ \E r \in Slots : UploadCompensate(r)

DuoSpec == DuoInit /\ [][DuoNext]_vars

\* What one upload by candidate c comes to when no other request exists: its
\* response, the rows of the table and the objects in storage, for each
\* instant of its storage write and of its enrichment and each outcome of
\* its calls.  Lines 17-73 from the empty table and the empty bucket.
AloneOutcomes(c, resumeFile, fileName) ==
    {[res |-> Reply(500, "Server error", UploadErrorMsg), rows |-> {}, objects |-> {}]}
    \cup
    UNION {
      LET key == StorageKey(c, t1)
          uploadResult == UploadResult(resumeFile, key)
          resumeText == extractTextFromBase64(resumeFile, fileName)
          analysisData == BuildAnalysisData(analyzeResumeWithAI(resumeText, fileName, http), t2)
          row == NewRow(1, c, uploadResult, fileName, analysisData)
      IN  { [res |-> ReplyData(201, row), rows |-> {row}, objects |-> {key}],
            [res |-> Reply(400, DbErrorMsg, ""), rows |-> {}, objects |-> {}],
            [res |-> Reply(500, "Server error", DeleteErrorMsg), rows |-> {},
             objects |-> {key}] }
      : t1 \in Instants, t2 \in Instants, http \in PairOutcomes }

----------------------------------------------------------------------------
(* The five handlers, one request at a time.  Every call a handler awaits  *)
(* settles (it resolves or it rejects), so a handler that can take a step  *)
(* takes it.                                                                *)

\* The steps a handler in flight takes after its first one.
Step(r) ==
    \/ UploadStore(r)
    \/ UploadEnrich(r, PairOutcomes)
    \/ UploadInsert(r)
    \/ UploadCompensate(r)
    \/ DeleteRow(r)
    \/ DeleteObject(r)

SerialNext ==
    \/ Tick
    \/ PairUploadRequest(1, Files)
    \/ UploadStore(1)
    \/ UploadEnrich(1, PairOutcomes)
    \/ UploadInsert(1)
    \/ UploadCompensate(1)
    \/ PairDeleteLookup(1)
    \/ DeleteRow(1)
    \/ DeleteObject(1)
    \/ GetResume(1)
    \/ GetMyResumes(1)
    \/ UpdateAnalysis(1, PairIds)

SerialSpec == Init /\ [][SerialNext]_vars /\ WF_vars(Step(1))

----------------------------------------------------------------------------
(* Properties *)

Done(r, kind) == req[r].kind = kind /\ req[r].pc = "done"

\* analysis_data of every row and of every upload in flight
StoredAnalyses ==
    {row.analysis_data : row \in db} \cup {req[r].analysisData : r \in Slots}

\* C1: when the storage upload succeeded and the insert reported an error, the
\* handler answers only after the uploaded object is gone from storage, no row
\* points at it, and the answer is 400 with the table's error message.
C1_CompensatedInsertFailure ==
    \A r \in Slots :
        (Done(r, "upload") /\ CalledWith(req[r], "db.insert", "error")) =>
            /\ req[r].uploadResult.path \notin storage
            /\ \A row \in db : row.storage_path # req[r].uploadResult.path
            /\ req[r].res.status = 400
            /\ req[r].res.message = DbErrorMsg

\* C2: every row of the table has a storage_path whose object is in storage.
C2_NoDanglingRow == \A row \in db : row.storage_path \in storage

C4_ValidationBeforeSideEffects ==
    [][\A r \in Slots :
          (uploads' = uploads + 1 /\ req'[r].kind = "upload") =>
          \A c \in CandidateIds, f \in {NoFile, EmptyFile}, n \in FileNames :
          UploadArrive(r, c, f, n) =>
              /\ req'[r].pc = "done"
              /\ req'[r].res.status = 400
              /\ req'[r].res.message = "Resume file is required"
              /\ req'[r].calls = <<>>
              /\ db' = db
              /\ storage' = storage]_vars

C4_Witness ==
    \E r \in Slots :
        /\ Done(r, "upload")
        /\ req[r].res.status = 400
        /\ req[r].res.message = "Resume file is required"
        /\ req[r].calls = <<>>

\* C5: an upload whose storage write failed is answered 500, and the storage
\* write is the only call it made: no analysis call and no insert.
C5_StorageFailureStopsUpload ==
    \A r \in Slots :
        (req[r].kind = "upload" /\ CalledWith(req[r], "storage.upload", "throw")) =>
            /\ req[r].pc = "done"
            /\ req[r].res.status = 500
            /\ req[r].calls = <<<<"storage.upload", "throw">>>>

C5_Witness ==
    \E r \in Slots :
        /\ Done(r, "upload")
        /\ CalledWith(req[r], "storage.upload", "throw")
        /\ req[r].res.status = 500
        /\ db = {}

C7_ScoreFormula ==
    \A a \in StoredAnalyses :
        a.type = "object" =>
            /\ a.score = Min(100, 50 + Min(Len(a.skills) * 2, 30)
                                     + Min(a.experience_years * 2, 20))
            /\ (Len(a.skills) = 5 /\ a.experience_years = 3) => a.score = 66

C7_Witness ==
    \E row \in db :
        /\ row.analysis_data.type = "object"
        /\ Len(row.analysis_data.skills) = 5
        /\ row.analysis_data.experience_years = 3
        /\ row.analysis_data.summary = ""
        /\ row.analysis_data.score = 66

\* C8: a delete request for an id that no row of the caller has is answered
\* 404 at once: no delete of a row or of an object is called, and the table
\* and the storage are unchanged.
C8_DeleteNotFound ==
    [][\A r \in Slots :
          (req'[r].kind = "delete" /\ Len(req'[r].calls) = 1) =>
          \A c \in CandidateIds, id \in ResumeIds :
          (OwnedRows(db, id, c) = {} /\ DeleteArrive(r, c, id)) =>
              /\ req'[r].pc = "done"
              /\ req'[r].res.status = 404
              /\ ~Called(req'[r], "db.delete")
              /\ ~Called(req'[r], "storage.delete")
              /\ db' = db
              /\ storage' = storage]_vars

C8_Witness ==
    \E r \in Slots :
        /\ Done(r, "delete")
        /\ req[r].res.status = 404
        /\ \E row \in db : row.id = req[r].resumeId /\ row.candidate_id # req[r].caller
        /\ \A row \in db : row.storage_path \in storage

\* C9: a get request that found the record and read the caller's profile is
\* answered 403 when the profile says candidate and the caller is not the
\* owner, and 200 with the record when the profile says another user type; a
\* get request that found no record is answered 404 without a profile lookup.
C9_GetResumeAuthorization ==
    \A r \in Slots :
        Done(r, "get") =>
            /\ CalledWith(req[r], "db.select", "error") =>
                   /\ req[r].res.status = 404
                   /\ ~Called(req[r], "db.profile")
            /\ ( /\ CalledWith(req[r], "db.profile", "object")
                 /\ UserType(req[r].caller) = "candidate"
                 /\ req[r].found.candidate_id # req[r].caller ) =>
                   /\ req[r].res.status = 403
                   /\ req[r].res.data = Undefined
            /\ ( /\ CalledWith(req[r], "db.profile", "object")
                 /\ UserType(req[r].caller) # "candidate" ) =>
                   /\ req[r].res.status = 200
                   /\ req[r].res.data = req[r].found

C9_Witness ==
    \E r \in Slots :
        /\ Done(r, "get")
        /\ CalledWith(req[r], "db.profile", "object")
        /\ UserType(req[r].caller) = "candidate"
        /\ req[r].found.candidate_id # req[r].caller
        /\ req[r].res.status = 403

\* C10: a get request is answered 200 with the record only when the caller is
\* the owner or the profile lookup identified the caller as a recruiter.
C10_OnlyOwnerOrReviewer ==
    \A r \in Slots :
        (Done(r, "get") /\ req[r].res.status = 200) =>
            \/ req[r].found.candidate_id = req[r].caller
            \/ /\ CalledWith(req[r], "db.profile", "object")
               /\ UserType(req[r].caller) = "recruiter"

\* The columns of a row that updateResumeAnalysis must leave alone.
Frame(row) ==
    <<row.id, row.candidate_id, row.resume_url, row.storage_path,
      row.file_name, row.file_size>>

\* C11: an update of analysis data by caller c on id R leaves the storage and
\* every row other than the row (R, c) as they are, and changes of that row at
\* most analysis_data; when no row matches (R, c) the table is unchanged and
\* the answer is 400.
C11_UpdateChangesOnlyAnalysis ==
    [][\A r \in Slots :
          (req'[r].kind = "update" /\ storage' = storage) =>
          \A a \in AnalysisInputs :
          LET c == req'[r].caller
              id == req'[r].resumeId
          IN  (UpdateArrive(r, c, id, a) /\ UNCHANGED <<storage, now, nextId, uploads, writers>>) =>
                /\ \A row \in db : (row.id # id \/ row.candidate_id # c) => row \in db'
                /\ \A row \in OwnedRows(db, id, c) :
                       \E new \in db' : /\ Frame(new) = Frame(row)
                                        /\ new.analysis_data \in {row.analysis_data, a}
                /\ Cardinality(db') = Cardinality(db)
                /\ {Frame(row) : row \in db'} = {Frame(row) : row \in db}
                /\ OwnedRows(db, id, c) = {} =>
                       /\ db' = db
                       /\ req'[r].res.status = 400
                       /\ req'[r].res.data = Undefined]_vars

C11_Witness ==
    \E r \in Slots :
        /\ Done(r, "update")
        /\ req[r].res.status = 200
        /\ req[r].res.data \in db
        /\ req[r].res.data.analysis_data = ManualAnalysis
        /\ req[r].res.data.storage_path \in storage
        /\ \E other \in db : /\ other.id # req[r].resumeId
                             /\ other.candidate_id # req[r].caller
                             /\ other.analysis_data # ManualAnalysis

InFlight(r) == req[r].pc \notin {"idle", "done"}

\* C12: a handler that has returned has sent exactly one response, a handler
\* in flight has sent none, and every handler in flight returns, whichever
\* of its storage, table and analysis calls fail.
C12_ExactlyOneResponse ==
    /\ [](\A r \in Slots :
            /\ req[r].pc = "done" => (req[r].sent = 1 /\ req[r].res.status # 0)
            /\ InFlight(r) => (req[r].sent = 0 /\ req[r].res = NoResponse))
    /\ \A r \in Slots : InFlight(r) ~> (req[r].pc = "done" /\ req[r].sent = 1)

C12_Witness ==
    \E r \in Slots :
        /\ Done(r, "delete")
        /\ CalledWith(req[r], "db.delete", "error")
        /\ CalledWith(req[r], "storage.delete", "throw")
        /\ req[r].res.status = 500
        /\ req[r].sent = 1

\* C13: analyzeResumeWithAI does not raise: for every file name, the missing
\* one included, and every outcome of the HTTP call it returns the response
\* body when the call was made and answered, and null otherwise.
C13_AnalyzeNeverRaises ==
    [][\A r \in Slots :
          (req[r].pc = "enrich" /\ req'[r].pc = "insert") =>
          \A http \in DataOutcomes :
          req'[r] = Enrich(req[r], http, now) =>
              LET resumeText == extractTextFromBase64(req[r].resumeFile, req[r].fileName)
                  result == analyzeResumeWithAI(resumeText, req[r].fileName, http)
              IN  /\ result # Raised
                  /\ (req[r].fileName # NoName /\ http.kind = "ok") => result = http.data
                  /\ (req[r].fileName = NoName \/ http.kind \in HttpFailures) => result = Null]_vars

C13_Witness ==
    \E r \in Slots :
        /\ req[r].kind = "upload"
        /\ req[r].pc = "insert"
        /\ req[r].fileName = NoName
        /\ CalledWith(req[r], "analysis", "not sent")
        /\ req[r].analysisData = Null

\* C14: a list request answered 200 returns the rows of the table whose
\* candidate_id is the caller's, each once and no other row, with updated_at
\* descending; a list request, answered 200 or 400, changes nothing.
C14_ListOwnRowsNewestFirst ==
    [][\A r \in Slots :
          (req'[r].kind = "list" /\ req'[r] # req[r]) =>
              /\ <<db, storage, now, nextId, uploads, writers>>' =
                     <<db, storage, now, nextId, uploads, writers>>
              /\ req'[r].res.status \in {200, 400}
              /\ req'[r].res.status = 200 =>
                   LET items == req'[r].res.data.items
                       own == {row \in db : row.candidate_id = req'[r].caller}
                   IN  /\ {items[i] : i \in 1..Len(items)} = own
                       /\ Len(items) = Cardinality(own)
                       /\ \A i \in 1..Len(items) : items[i].candidate_id = req'[r].caller
                       /\ \A i, j \in 1..Len(items) :
                              i < j => items[i].updated_at >= items[j].updated_at]_vars

C14_Witness ==
    \E r \in Slots :
        /\ Done(r, "list")
        /\ req[r].res.status = 200
        /\ Len(req[r].res.data.items) = 2
        /\ req[r].res.data.items[1].updated_at > req[r].res.data.items[2].updated_at
        /\ req[r].res.data.items[1].candidate_id = req[r].caller
        /\ req[r].res.data.items[2].candidate_id = req[r].caller

C16_CompensationFailureNotPropagated ==
    \A r \in Slots :
        ( /\ Done(r, "upload")
          /\ CalledWith(req[r], "db.insert", "error")
          /\ CalledWith(req[r], "storage.delete", "throw") ) =>
            /\ req[r].res.status = 400
            /\ req[r].res.message = DbErrorMsg
            /\ req[r].res.error = ""

\* C17: deleteResume on a record of the caller calls the storage delete only
\* after the row delete; the storage delete step, whatever its outcome, leaves
\* the table as it is; and from the row delete on no row with the deleted id
\* is in the table, whether the storage delete succeeded or failed.
C17_RowDeletedBeforeObject ==
    [][/\ \A r \in Slots :
            (req'[r].kind = "delete" /\ Called(req'[r], "storage.delete")) =>
                /\ Len(req'[r].calls) = 3
                /\ req'[r].calls[1] = <<"db.select", "ok">>
                /\ req'[r].calls[2][1] = "db.delete"
                /\ req'[r].calls[3][1] = "storage.delete"
       /\ \A r \in Slots :
            (req[r].kind = "delete" /\ req[r].pc = "deleteObject" /\ req'[r] # req[r]) =>
                db' = db
       /\ \A r \in Slots :
            (req'[r].kind = "delete" /\ Called(req'[r], "db.delete")) =>
                \A row \in db' : row.id # req'[r].resumeId]_vars

\* The value of field f that C18 expects in analysis_data: the service's
\* value, or the given default when the service left the field out.
Expected(body, f, default) == IF f \in DOMAIN body THEN body[f] ELSE default

\* C18: when the analysis service answers with an object, the upload's
\* analysis_data is an object holding each of the six fields with the
\* service's value or, when it is omitted, [] / {} / 0 / '', the score
\* calculateOverallScore gives for the answer, and the current time as
\* analyzed_at; analysis_data is null only when the call was not made, was
\* rejected or was answered null; and the inserted row carries the upload's
\* analysis_data.
C18_AnalysisDefaults ==
    [][/\ \A r \in Slots :
            (req[r].pc = "enrich" /\ req'[r].pc = "insert") =>
            \A http \in DataOutcomes :
            req'[r] = Enrich(req[r], http, now) =>
                LET a == req'[r].analysisData
                    called == req[r].fileName # NoName
                IN  /\ (called /\ http.kind = "ok" /\ http.data.type = "object") =>
                          /\ a # Null
                          /\ DOMAIN a = {"type", "skills", "categorized_skills",
                                         "experience_years", "education",
                                         "certifications", "summary", "score",
                                         "analyzed_at"}
                          /\ a.skills = Expected(http.data, "skills", <<>>)
                          /\ a.categorized_skills =
                                 Expected(http.data, "categorized_skills", <<>>)
                          /\ a.experience_years = Expected(http.data, "experience_years", 0)
                          /\ a.education = Expected(http.data, "education", <<>>)
                          /\ a.certifications = Expected(http.data, "certifications", <<>>)
                          /\ a.summary = Expected(http.data, "summary", "")
                          /\ a.score = calculateOverallScore(http.data)
                          /\ a.analyzed_at = now
                    /\ a = Null =>
                          \/ ~called
                          \/ http.kind \in HttpFailures
                          \/ http.data = Null
       /\ \A row \in db' \ db :
            \E r \in Slots : /\ req[r].pc = "insert"
                             /\ row.analysis_data = req[r].analysisData]_vars

C18_Witness ==
    \E row \in db :
        /\ row.analysis_data.type = "object"
        /\ Len(row.analysis_data.skills) = 2
        /\ row.analysis_data.experience_years = 0
        /\ row.analysis_data.education = <<>>
        /\ row.analysis_data.summary = ""
        /\ row.analysis_data.score = 54
        /\ row.analysis_data.analyzed_at = 1

\* C19: when no two uploads of one candidate generate their key at the same
\* instant, no two rows have the same storage_path, and an object removed
\* from storage (by a compensating delete or by deleteResume) is referenced
\* by no row other than the row the deleting request looked up.
C19_NoSharedStoragePath ==
    [][/\ \A row, other \in db' :
            row.storage_path = other.storage_path => row = other
       /\ \A key \in storage \ storage' :
            \A row \in db' :
                row.storage_path = key =>
                    \E r \in Slots : /\ req[r].kind = "delete"
                                     /\ req[r].pc = "deleteObject"
                                     /\ req[r].found.storage_path = key
                                     /\ req[r].resumeId = row.id
                                     /\ req[r].caller = row.candidate_id]_vars

C19_Witness ==
    \E row, other \in db :
        /\ row.candidate_id = other.candidate_id
        /\ row.id # other.id
        /\ row.storage_path # other.storage_path
        /\ storage = {row.storage_path}
        /\ \E r \in Slots : Done(r, "delete") /\ req[r].resumeId = other.id

\* A row and a response without the id and the stamp the table generates.
AsFirstRow(row) == [row EXCEPT !.id = 1, !.updated_at = 1]
AsFirstResponse(res) ==
    IF res.status = 201 THEN [res EXCEPT !.data = AsFirstRow(@)] ELSE res

\* C20: of two interleaved uploads by different candidates, each one answers,
\* inserts and stores what it would alone (up to the id the table generates):
\* its response, the caller's rows and the object under its key are an
\* outcome of the upload running alone; a step of one upload leaves the other
\* upload in flight as it is; and an upload in flight can always take its
\* next step, whatever the other one has done.
C20_UploadsIndependent ==
    /\ [](\A r \in Slots : InFlight(r) => ENABLED Step(r))
    /\ [][\A r \in Slots :
          /\ (InFlight(r) /\ req'[r].pc = "done") =>
                [res |-> AsFirstResponse(req'[r].res),
                 rows |-> {AsFirstRow(row) :
                             row \in {x \in db' : x.candidate_id = req[r].caller}},
                 objects |-> {key \in storage' :
                                /\ req'[r].uploadResult # Undefined
                                /\ key = req'[r].uploadResult.path}]
                  \in AloneOutcomes(req[r].caller, req[r].resumeFile, req[r].fileName)
          /\ (InFlight(r) /\ req'[r] # req[r]) =>
                \A o \in Slots \ {r} : InFlight(o) => req'[o] = req[o]]_vars

C20_Witness ==
    \E r, o \in Slots :
        /\ Done(r, "upload")
        /\ req[r].res.status = 201
        /\ req[r].res.data \in db
        /\ req[r].uploadResult.path \in storage
        /\ req[o].kind = "upload"
        /\ req[o].pc = "compensate"
        /\ req[o].caller # req[r].caller
        /\ req[o].uploadResult.path[3] = req[r].uploadResult.path[3]

====
